---------------------------- MODULE Spec2Model ----------------------------
(***************************************************************************)
(* State-machine model of the "Hello pgvector" notebook                     *)
(* (openai_pgvector_helloworld.ipynb): the chunking loop, the embedding     *)
(* loop, the batch insert into the embeddings table, the nearest-neighbour  *)
(* query and the prompt assembly of process_input_with_retrieval.           *)
(* CounterSpec calls the notebook's token counter on single arguments, and  *)
(* VectorizerSpec models the pgai vectorizer notebook: the load of the      *)
(* table products in two subsets and the assembly of the context.           *)
(*                                                                         *)
(* A string is a sequence of characters; a character is an integer.  The   *)
(* two whitespace characters the notebook distinguishes are SPACE and       *)
(* NEWLINE, every positive integer is a non-whitespace character.           *)
(***************************************************************************)
EXTENDS Integers, Sequences, FiniteSets, TLC

VARIABLES
    mergeLen,        \* the tokenizer's encoding: characters merged per token
    df,              \* the loaded documents: sequence of [title, url, content]
    new_list,        \* the chunk rows the chunking cell builds
    i,               \* index of the document being chunked (0-based)
    words,           \* split branch: words of the current document
    total_words,     \* split branch: len(words)
    chunks,          \* split branch: number of iterations
    j,               \* split branch: inner loop index
    start,           \* split branch: slice start
    end,             \* split branch: slice end
    last_slice,      \* split branch: the bounds of the last words[start:end] taken
    e,               \* embedding loop index (0-based)
    df_new,          \* the data frame built from new_list
    data_list,       \* the tuples handed to execute_values
    sent,            \* rows of data_list already sent by execute_values
    txn,             \* state of the transaction on the shared connection
    pending,         \* rows inserted in the open transaction, not committed
    table,           \* committed rows of the embeddings table
    seq,             \* last value of the bigserial sequence of embeddings.id
    user_input,      \* argument of process_input_with_retrieval
    related_docs,    \* rows fetched by get_top3_similar_docs
    messages,        \* messages submitted to the chat-completion service
    final_response,  \* text returned by process_input_with_retrieval
    error,           \* exception that ended the last cell, or "none"
    runs,            \* number of times the notebook has been started
    table0,          \* committed rows when the current run started
    calls,           \* history: calls to external services made by the running cell
    string,          \* argument of the calls of num_tokens_from_string under test
    counts,          \* what the successive calls on that argument returned
    encodes,         \* how many of those calls consulted the encoder
    products,        \* vectorizer notebook: the catalog, a list of [name, description]
    products_table,  \* vectorizer notebook: committed rows of the table products
    products_id,     \* vectorizer notebook: last value of the identity of products.id
    inserted,        \* history: per call of insert_subset_data, rows added and outcome
    fetched,         \* vectorizer notebook: rows, what the retrieval query fetched
    context,         \* vectorizer notebook: the context built from the fetched rows
    pc               \* next statement of the notebook to execute

vars == <<mergeLen, df, new_list, i, words, total_words, chunks, j, start, end,
          last_slice,
          e, df_new, data_list, sent, txn, pending, table, seq, user_input,
          related_docs, messages, final_response, error, runs, table0, calls,
          string, counts, encodes, products, products_table, products_id,
          inserted, fetched, context, pc>>

chunkVars == <<words, total_words, chunks, j, start, end, last_slice>>
storeVars == <<data_list, sent, txn, pending, table, seq>>
ragVars == <<user_input, related_docs, messages, final_response>>
counterVars == <<string, counts, encodes>>
vectorizerVars == <<products, products_table, products_id, inserted, fetched, context>>

----------------------------------------------------------------------------
(* Bounds of the model *)

\* the encodings considered merge 1 .. MaxMerge characters into one token
MaxMerge == 2
\* the notebook is run at most MaxRuns times against the same database
MaxRuns == 2
\* the token counter is tried on strings of at most MaxStringLen characters
MaxStringLen == 3
\* and called at most MaxCalls times on the same argument
MaxCalls == 2
\* the view products_embedding offers at most MaxView chunks to a query
MaxView == 4
\* embeddings are unit vectors at the angles 0 .. NumDirs-1 (in units of 360/NumDirs degrees)
NumDirs == 8

(* Constants of the program *)

SPACE == 0
NEWLINE == -1
\* if token_len <= 512
\* the tab character, the column separator of copy_from
TAB == -3
\* subset_1 = products[:250]
SubsetSize == 250
\* LIMIT 3 of the retrieval query of the vectorizer notebook
ChunkLimit == 3
\* the value standing for Python's None: a string holding the one non-character
NoChar == -2
MaxTokens == 512
ideal_token_size == 512
\* psycopg2.extras.execute_values sends the argument list in pages of page_size rows
page_size == 100
\* LIMIT 3
TopK == 3

----------------------------------------------------------------------------
(* Arithmetic and sequence helpers *)

Min(a, b) == IF a < b THEN a ELSE b

CeilDiv(a, b) == (a + b - 1) \div b

IsSpace(c) == c = SPACE \/ c = NEWLINE

\* Python s[a:b] for a sequence s and indices a, b >= 0
PySlice(s, a, b) == SubSeq(s, Min(a, Len(s)) + 1, Min(b, Len(s)))

\* concatenation of f[lo] \o ... \o f[hi] for a function f to sequences
RECURSIVE Cat(_, _, _)
Cat(f, lo, hi) ==
    IF lo > hi THEN <<>>
    ELSE IF lo = hi THEN f[lo]
    ELSE LET mid == (lo + hi) \div 2
         IN Cat(f, lo, mid) \o Cat(f, mid + 1, hi)

\* sum of s[lo] + ... + s[hi]
RECURSIVE Sum(_, _, _)
Sum(s, lo, hi) ==
    IF lo > hi THEN 0
    ELSE IF lo = hi THEN s[lo]
    ELSE LET mid == (lo + hi) \div 2
         IN Sum(s, lo, mid) + Sum(s, mid + 1, hi)

----------------------------------------------------------------------------
(* Python string operations used by the notebook *)

\* str.split(): the maximal runs of non-whitespace characters, in order
split(s) ==
    LET idx == [k \in 1..Len(s) |-> k]
        IsStart(k) == ~IsSpace(s[k]) /\ (k = 1 \/ IsSpace(s[k - 1]))
        IsEnd(k) == ~IsSpace(s[k]) /\ (k = Len(s) \/ IsSpace(s[k + 1]))
        starts == SelectSeq(idx, IsStart)
        ends == SelectSeq(idx, IsEnd)
    IN [k \in 1..Len(starts) |-> SubSeq(s, starts[k], ends[k])]

\* ' '.join(ws)
join(ws) ==
    Cat([k \in 1..Len(ws) |-> IF k = 1 THEN ws[k] ELSE <<SPACE>> \o ws[k]],
        1, Len(ws))

\* text.replace("\n", " ")
replace_newlines(s) == [k \in 1..Len(s) |-> IF s[k] = NEWLINE THEN SPACE ELSE s[k]]

----------------------------------------------------------------------------
(* Helper functions of the notebook *)

\* len(encoding.encode(string)): the encoding merges up to mergeLen characters
\* into one token, so a non-empty string never encodes to zero tokens
encode_len(s) == CeilDiv(Len(s), mergeLen)

\* Python's None, the null of the language
None == <<NoChar>>

\* "not string", had it been written string == ""
not_string_empty_only(s) == s = <<>>

\* "not string": true of None and of the empty string
not_string(s) == s = None \/ s = <<>>

num_tokens_from_string(s) ==
    IF not_string(s) THEN 0 ELSE encode_len(s)

get_essay_length(essay) == Len(split(essay))

\* ideal_size = int(ideal_token_size // (4/3))
ideal_size == (ideal_token_size * 3) \div 4

\* words = [x for x in words if x != ' ']
remove_empty_spaces(ws) == SelectSeq(ws, LAMBDA x : x # <<SPACE>>)

\* a chunk count that forgets the remainder
num_chunks_floor(n) == n \div ideal_size

\* chunks = total_words // ideal_size, plus one when there is a remainder
num_chunks(n) ==
    IF n % ideal_size # 0 THEN n \div ideal_size + 1 ELSE n \div ideal_size

\* an end index that is never clamped
clamp_end_missing(en, n) == en

\* if end > total_words: end = total_words
clamp_end(en, n) == IF en > n THEN n ELSE en

\* a step that skips one word between two slices
next_bound_skip(b) == b + ideal_size + 1

\* start += ideal_size; end += ideal_size
next_bound(b) == b + ideal_size

\* a single-chunk row whose content went through split and join
single_row_rejoined(doc, token_len) ==
    <<doc.title, join(split(doc.content)), doc.url, token_len>>

\* the row appended by the single-chunk branch
single_row(doc, token_len) == <<doc.title, doc.content, doc.url, token_len>>

\* "if new_content_token_len > 0", had it asked for more than one token
keeps_chunk_long(new_content_token_len) == new_content_token_len > 1

\* if new_content_token_len > 0
keeps_chunk(new_content_token_len) == new_content_token_len > 0

\* new_list.append([...]) of the split branch, had it recorded the target size
chunk_row_target(doc, new_content_string, new_content_token_len) ==
    <<doc.title, new_content_string, doc.url, ideal_token_size>>

\* the row appended by the split branch
chunk_row(doc, new_content_string, new_content_token_len) ==
    <<doc.title, new_content_string, doc.url, new_content_token_len>>

----------------------------------------------------------------------------
(* The documents the notebook is run on *)

Title(d) == <<5000 + d>>
Url(d) == <<6000 + d>>

\* n one-letter words separated by single spaces: "a b c ..."
PlainContent(n) ==
    Cat([k \in 1..n |-> IF k = 1 THEN <<k>> ELSE <<SPACE, k>>], 1, n)

\* n words of one to three letters, separated by a space, two spaces or a
\* newline, with leading and trailing whitespace
RaggedContent(n) ==
    <<SPACE>> \o
    Cat([k \in 1..n |->
            [c \in 1..(1 + (k % 3)) |-> k] \o
            (CASE k % 3 = 0 -> <<SPACE>>
               [] k % 3 = 1 -> <<SPACE, SPACE>>
               [] OTHER -> <<NEWLINE>>)], 1, n)

\* n spaces and no word
BlankContent(n) == [k \in 1..n |-> SPACE]

Doc(d, content) == [title |-> Title(d), url |-> Url(d), content |-> content]

MkDf(contents) == [d \in 1..Len(contents) |-> Doc(d, contents[d])]

Datasets ==
    { MkDf(<<>>),
      MkDf(<<RaggedContent(4)>>),
      MkDf(<<PlainContent(3), RaggedContent(5)>>),
      MkDf(<<RaggedContent(2), BlankContent(2), PlainContent(7), RaggedContent(6)>>),
      MkDf(<<PlainContent(3), PlainContent(ideal_size + 1), RaggedContent(2)>>),
      MkDf(<<RaggedContent(2 * ideal_size), BlankContent(MaxTokens + 1), PlainContent(2)>>),
      MkDf(<<PlainContent(2000)>>),
      MkDf([d \in 1..(page_size + 1) |-> PlainContent(1 + (d % 2))]) }

----------------------------------------------------------------------------
(* Initial state: the notebook is about to run its chunking cell for the    *)
(* first time, on a database whose embeddings table is empty.              *)

Init ==
    /\ mergeLen \in 1..MaxMerge
    /\ df \in Datasets
    /\ new_list = <<>>
    /\ i = 0
    /\ words = <<>> /\ total_words = 0 /\ chunks = 0
    /\ j = 0 /\ start = 0 /\ end = 0 /\ last_slice = <<0, 0>>
    /\ e = 0
    /\ df_new = <<>>
    /\ data_list = <<>> /\ sent = 0
    /\ txn = "idle" /\ pending = <<>> /\ table = <<>> /\ seq = 0
    /\ user_input = <<>> /\ related_docs = <<>> /\ messages = <<>>
    /\ final_response = <<>>
    /\ error = "none"
    /\ runs = 1
    /\ table0 = <<>>
    /\ calls = <<>>
    /\ string = <<>> /\ counts = <<>> /\ encodes = 0
    /\ products = <<>> /\ products_table = <<>> /\ products_id = 0
    /\ inserted = <<>> /\ fetched = <<>> /\ context = <<>>
    /\ pc = "start"

----------------------------------------------------------------------------
(* The chunking cell *)

\* pc after document i' - 1 has been handled
AfterDoc(next_i) == IF next_i < Len(df) THEN "chunk" ELSE "embed"

\* new_list = []
StartChunking ==
    /\ pc = "start"
    /\ new_list' = <<>>
    /\ i' = 0
    /\ pc' = AfterDoc(0)
    /\ UNCHANGED <<mergeLen, df, vectorizerVars, counterVars, calls, chunkVars, e, df_new, storeVars, ragVars,
                   error, runs, table0>>

\* one iteration of "for i in range(len(df.index))" up to the inner loop
ChunkDoc ==
    /\ pc = "chunk"
    /\ i < Len(df)
    /\ LET text == df[i + 1].content
           token_len == num_tokens_from_string(text)
       IN IF token_len <= MaxTokens
          THEN /\ new_list' = Append(new_list, single_row(df[i + 1], token_len))
               /\ i' = i + 1
               /\ pc' = AfterDoc(i + 1)
               /\ UNCHANGED chunkVars
          ELSE LET ws == remove_empty_spaces(split(text))
                   n == num_chunks(Len(ws))
               IN /\ start' = 0
                  /\ end' = ideal_size
                  /\ words' = ws
                  /\ total_words' = Len(ws)
                  /\ chunks' = n
                  /\ j' = 0
                  /\ last_slice' = last_slice
                  /\ new_list' = new_list
                  /\ i' = IF n = 0 THEN i + 1 ELSE i
                  /\ pc' = IF n = 0 THEN AfterDoc(i + 1) ELSE "slice"
    /\ UNCHANGED <<mergeLen, df, vectorizerVars, counterVars, calls, e, df_new, storeVars, ragVars, error, runs, table0>>

\* one iteration of "for j in range(chunks)"
ChunkSlice ==
    /\ pc = "slice"
    /\ j < chunks
    /\ LET en == clamp_end(end, total_words)
           new_content == PySlice(words, start, en)
           new_content_string == join(new_content)
           new_content_token_len == num_tokens_from_string(new_content_string)
       IN /\ new_list' =
                IF keeps_chunk(new_content_token_len)
                THEN Append(new_list, chunk_row(df[i + 1], new_content_string,
                                                new_content_token_len))
                ELSE new_list
          /\ last_slice' = <<start, en>>
          /\ start' = next_bound(start)
          /\ end' = next_bound(en)
    /\ j' = j + 1
    /\ i' = IF j + 1 = chunks THEN i + 1 ELSE i
    /\ pc' = IF j + 1 = chunks THEN AfterDoc(i + 1) ELSE "slice"
    /\ UNCHANGED <<mergeLen, df, vectorizerVars, counterVars, calls, words, total_words, chunks, e, df_new,
                   storeVars, ragVars, error, runs, table0>>

----------------------------------------------------------------------------
(* The embedding cell *)

\* the embedding service: a unit vector, given by its angle, that depends on
\* every character of the submitted text
embed_model(input) == (Sum(input, 1, Len(input)) + Len(input)) % NumDirs

\* get_embeddings(text), when the service answers
get_embeddings(text) == embed_model(replace_newlines(text))

\* new_list[i].append(embedding)
with_embedding(row, embedding) == Append(row, embedding)

\* text = new_list[i][1], with the title taken instead
row_text_title(row) == row[1]

\* text = new_list[i][1]
row_text(row) == row[2]

\* client.embeddings.create(input = text, model = ...): one request to the
\* embedding service, made after "\n" has been replaced in the text
embedding_call(text) == [service |-> "embeddings", input |-> replace_newlines(text)]

\* an embedding loop that inserts and commits each row as soon as it has its
\* vector
EmbedRowWritingThrough ==
    /\ pc = "embed"
    /\ e < Len(new_list)
    /\ LET row == new_list[e + 1]
           text == row_text(row)
       IN /\ calls' = Append(calls, embedding_call(text))
          /\ \/ /\ new_list' = [new_list EXCEPT ![e + 1] =
                                   with_embedding(@, get_embeddings(text))]
                /\ e' = e + 1
                /\ table' = Append(table,
                                   [id |-> seq + 1, title |-> row[1], url |-> row[3],
                                    content |-> row[2], tokens |-> row[4],
                                    embedding |-> get_embeddings(text)])
                /\ seq' = seq + 1
                /\ UNCHANGED <<error, pc>>
             \/ /\ error' = "EmbeddingError"
                /\ pc' = "stopped"
                /\ UNCHANGED <<new_list, e, table, seq>>
    /\ UNCHANGED <<mergeLen, df, vectorizerVars, counterVars, i, chunkVars, df_new, data_list, sent,
                   txn, pending, ragVars, runs, table0>>

\* one iteration of "for i in range(len(new_list))"
EmbedRow ==
    /\ pc = "embed"
    /\ e < Len(new_list)
    /\ LET text == row_text(new_list[e + 1])
       IN /\ calls' = Append(calls, embedding_call(text))
          /\ \/ /\ new_list' = [new_list EXCEPT ![e + 1] =
                                   with_embedding(@, get_embeddings(text))]
                /\ e' = e + 1
                /\ UNCHANGED <<error, pc>>
             \/ \* the embedding call raises: the cell stops
                /\ error' = "EmbeddingError"
                /\ pc' = "stopped"
                /\ UNCHANGED <<new_list, e>>
    /\ UNCHANGED <<mergeLen, df, vectorizerVars, counterVars, i, chunkVars, df_new, storeVars, ragVars,
                   runs, table0>>

\* pd.DataFrame(new_list, columns=['title', 'content', 'url', 'tokens', 'embeddings'])
DataFrame(rows) ==
    [r \in 1..Len(rows) |->
        [title |-> rows[r][1], content |-> rows[r][2], url |-> rows[r][3],
         tokens |-> rows[r][4], embeddings |-> rows[r][5]]]

MakeFrame ==
    /\ pc = "embed"
    /\ e = Len(new_list)
    /\ df_new' = DataFrame(new_list)
    /\ pc' = "insert"
    /\ UNCHANGED <<mergeLen, df, vectorizerVars, counterVars, calls, new_list, i, chunkVars, e, storeVars, ragVars,
                   error, runs, table0>>

----------------------------------------------------------------------------
(* The batch insert cell and the shared connection *)

\* a list comprehension that builds the tuples in the column order of df_new
make_data_list_frame_order(frame) ==
    [r \in 1..Len(frame) |->
        <<frame[r].title, frame[r].content, frame[r].url, frame[r].tokens,
          frame[r].embeddings>>]

\* a list comprehension that loses the last row of the frame
make_data_list_short(frame) ==
    [r \in 1..(Len(frame) - 1) |->
        <<frame[r].title, frame[r].url, frame[r].content, frame[r].tokens,
          frame[r].embeddings>>]

\* data_list = [(row['title'], row['url'], row['content'], int(row['tokens']),
\*               np.array(row['embeddings'])) for index, row in df_new.iterrows()]
make_data_list(frame) ==
    [r \in 1..Len(frame) |->
        <<frame[r].title, frame[r].url, frame[r].content, frame[r].tokens,
          frame[r].embeddings>>]

\* INSERT INTO embeddings (title, url, content, tokens, embedding) VALUES %s
inserted_rows(page, last_id) ==
    [r \in 1..Len(page) |->
        [id |-> last_id + r, title |-> page[r][1], url |-> page[r][2],
         content |-> page[r][3], tokens |-> page[r][4], embedding |-> page[r][5]]]

\* the next page execute_values sends
next_page(list, done) == PySlice(list, done, done + page_size)

PrepareData ==
    /\ pc = "insert"
    /\ data_list' = make_data_list(df_new)
    /\ sent' = 0
    /\ pc' = IF Len(df_new) = 0 THEN "commit" ELSE "exec"
    /\ UNCHANGED <<mergeLen, df, vectorizerVars, counterVars, calls, new_list, i, chunkVars, e, df_new, txn, pending,
                   table, seq, ragVars, error, runs, table0>>

\* execute_values sends one page as one INSERT statement
ExecPage ==
    /\ pc = "exec"
    /\ sent < Len(data_list)
    /\ LET page == next_page(data_list, sent)
       IN \/ \* the statement succeeds inside the connection's transaction
             /\ pending' = pending \o inserted_rows(page, seq)
             /\ seq' = seq + Len(page)
             /\ sent' = sent + Len(page)
             /\ txn' = "open"
             /\ pc' = IF sent + Len(page) < Len(data_list) THEN "exec" ELSE "commit"
             /\ UNCHANGED error
          \/ \* the server rejects the statement: the transaction is aborted
             /\ txn' = "aborted"
             /\ pending' = <<>>
             /\ error' = "StoreError"
             /\ pc' = "failed"
             /\ UNCHANGED <<seq, sent>>
          \/ \* adapting a row of the page raises in the client: nothing is
             \* sent, the transaction stays as the earlier pages left it
             /\ error' = "AdaptError"
             /\ pc' = "failed"
             /\ UNCHANGED <<txn, pending, seq, sent>>
    /\ UNCHANGED <<mergeLen, df, vectorizerVars, counterVars, calls, new_list, i, chunkVars, e, df_new, data_list,
                   table, ragVars, runs, table0>>

\* a commit that replaces the table's rows by the new ones
commit_rows_replace(committed, uncommitted) == uncommitted

\* the effect of conn.commit() on the committed table
commit_rows(committed, uncommitted) == committed \o uncommitted

\* conn.commit() of the batch insert cell
Commit ==
    /\ pc = "commit"
    /\ \/ /\ table' = commit_rows(table, pending)
          /\ pending' = <<>>
          /\ txn' = "idle"
          /\ pc' = "ready"
          /\ UNCHANGED error
       \/ \* the commit fails: the server rolls the transaction back
          /\ txn' = "aborted"
          /\ pending' = <<>>
          /\ error' = "StoreError"
          /\ pc' = "failed"
          /\ UNCHANGED table
    /\ UNCHANGED <<mergeLen, df, vectorizerVars, counterVars, calls, new_list, i, chunkVars, e, df_new, data_list,
                   sent, seq, ragVars, runs, table0>>

\* a later cell on the same connection, run after the insert cell failed:
\* cur.execute('CREATE INDEX ...'); conn.commit()
LaterCommit ==
    /\ pc = "failed"
    /\ IF txn = "aborted"
       THEN \* cur.execute raises in the aborted transaction
            /\ error' = "StoreError"
            /\ UNCHANGED <<table, pending, txn>>
       ELSE /\ table' = commit_rows(table, pending)
            /\ pending' = <<>>
            /\ txn' = "idle"
            /\ error' = "none"
    /\ pc' = "stopped"
    /\ UNCHANGED <<mergeLen, df, vectorizerVars, counterVars, calls, new_list, i, chunkVars, e, df_new, data_list,
                   sent, seq, ragVars, runs, table0>>

\* the notebook is started again from its first cell: the kernel's variables
\* are rebuilt, psycopg2.connect opens a new connection and the old one is
\* closed, which rolls back what it had not committed
Restart ==
    /\ pc \in {"ready", "failed", "stopped"}
    /\ runs < MaxRuns
    /\ runs' = runs + 1
    /\ table0' = table
    /\ new_list' = <<>> /\ i' = 0
    /\ words' = <<>> /\ total_words' = 0 /\ chunks' = 0
    /\ j' = 0 /\ start' = 0 /\ end' = 0 /\ last_slice' = <<0, 0>>
    /\ e' = 0 /\ df_new' = <<>>
    /\ data_list' = <<>> /\ sent' = 0
    /\ txn' = "idle" /\ pending' = <<>>
    /\ user_input' = <<>> /\ related_docs' = <<>> /\ messages' = <<>>
    /\ final_response' = <<>>
    /\ error' = "none"
    /\ calls' = <<>>
    /\ pc' = "start"
    /\ UNCHANGED <<mergeLen, df, vectorizerVars, counterVars, table, seq>>

----------------------------------------------------------------------------
(* Nearest-neighbour search and answer synthesis *)

\* the questions asked
Queries == { PlainContent(2), <<3, NEWLINE, 3>>, <<9>> }

\* the texts the chat-completion service may answer with
Responses == { <<8001>>, <<8002>> }

\* embedding <=> query: the cosine distance of two unit vectors grows with
\* the angle between them
cosine_distance(a, b) ==
    LET d == (a - b) % NumDirs IN Min(d, NumDirs - d)

\* the rows the connection sees: the committed ones and its own inserts
visible_rows == table \o pending

\* cur.execute("SELECT COUNT(*) as cnt FROM embeddings;"); cur.fetchone()[0]
num_records == Len(visible_rows)

\* the rows at the greatest distance (ORDER BY ... DESC)
farthest(rows, S, q) ==
    LET dist(a) == cosine_distance(rows[a].embedding, q)
    IN {a \in S : \A b \in S : dist(a) >= dist(b)}

\* rows of the index set S at the least distance from the query vector; of
\* several such rows with equal content only the first is kept, since the
\* query returns the content alone
nearest(rows, S, q) ==
    LET dist(a) == cosine_distance(rows[a].embedding, q)
        least_dist == CHOOSE d \in 0..NumDirs :
                          /\ \E a \in S : dist(a) = d
                          /\ \A a \in S : dist(a) >= d
        least == {a \in S : dist(a) = least_dist}
    IN {a \in least : \A b \in least : rows[b].content = rows[a].content => a <= b}

\* ORDER BY embedding <=> q LIMIT k: every order the rows can come back in,
\* as sequences of row indices (rows at equal distance come in any order)
RECURSIVE order_by_limit(_, _, _, _)
order_by_limit(rows, S, q, k) ==
    IF k = 0 \/ S = {} THEN { <<>> }
    ELSE UNION { { <<a>> \o rest : rest \in order_by_limit(rows, S \ {a}, q, k - 1) }
                 : a \in nearest(rows, S, q) }

\* SELECT content FROM embeddings ORDER BY embedding <=> %s LIMIT 3; fetchall()
get_top3_similar_docs(rows, query_embedding) ==
    { [m \in 1..Len(picks) |-> <<rows[picks[m]].content>>] :
        picks \in order_by_limit(rows, 1..Len(rows), query_embedding, TopK) }

system_message == <<7000>>
delimiter == <<7001, 7001, 7001>>
context_header == <<7002>>

\* the messages list of process_input_with_retrieval, for three fetched rows
build_messages(input, docs) ==
    << [role |-> "system", content |-> system_message],
       [role |-> "user", content |-> delimiter \o input \o delimiter],
       [role |-> "assistant",
        content |-> context_header \o <<SPACE, NEWLINE, SPACE>> \o docs[1][1]
                    \o <<SPACE, NEWLINE, SPACE>> \o docs[2][1]
                    \o <<SPACE>> \o docs[3][1]] >>

\* cur.execute("SELECT content FROM embeddings ORDER BY embedding <=> %s LIMIT 3", ...)
store_query(query_embedding) == [service |-> "store", input |-> <<query_embedding>>]

\* client.chat.completions.create(model = ..., messages = messages, ...)
completion_call == [service |-> "chat", input |-> <<>>]

\* process_input_with_retrieval with a get_embeddings that tries a second time
\* when its request fails
RagEmbedRetrying ==
    /\ pc = "ready"
    /\ \E q \in Queries :
          /\ user_input' = q
          /\ \/ /\ calls' = <<embedding_call(q)>>
                /\ error' = "none"
                /\ pc' = "retrieve"
             \/ /\ calls' = <<embedding_call(q), embedding_call(q)>>
                /\ \/ error' = "none" /\ pc' = "retrieve"
                   \/ error' = "EmbeddingError" /\ pc' = "raised"
    /\ related_docs' = <<>>
    /\ messages' = <<>>
    /\ final_response' = <<>>
    /\ UNCHANGED <<mergeLen, df, vectorizerVars, counterVars, new_list, i, chunkVars, e, df_new, storeVars,
                   runs, table0>>

\* process_input_with_retrieval(user_input) is called: get_embeddings(user_input)
RagEmbed ==
    /\ pc = "ready"
    /\ \E q \in Queries :
          /\ user_input' = q
          /\ calls' = <<embedding_call(q)>>
    /\ related_docs' = <<>>
    /\ messages' = <<>>
    /\ final_response' = <<>>
    /\ \/ /\ error' = "none"
          /\ pc' = "retrieve"
       \/ \* the embedding call raises
          /\ error' = "EmbeddingError"
          /\ pc' = "raised"
    /\ UNCHANGED <<mergeLen, df, vectorizerVars, counterVars, new_list, i, chunkVars, e, df_new, storeVars,
                   runs, table0>>

\* related_docs = get_top3_similar_docs(<the embedding>, conn)
RagRetrieve ==
    /\ pc = "retrieve"
    /\ related_docs' \in get_top3_similar_docs(visible_rows, get_embeddings(user_input))
    /\ calls' = Append(calls, store_query(get_embeddings(user_input)))
    /\ pc' = "prompt"
    /\ UNCHANGED <<mergeLen, df, vectorizerVars, counterVars, new_list, i, chunkVars, e, df_new, storeVars,
                   user_input, messages, final_response, error, runs, table0>>

\* messages = [...]: related_docs[0][0], related_docs[1][0], related_docs[2][0]
RagPrompt ==
    /\ pc = "prompt"
    /\ IF Len(related_docs) < 3
       THEN \* list index out of range
            /\ error' = "IndexError"
            /\ pc' = "raised"
            /\ UNCHANGED messages
       ELSE /\ messages' = build_messages(user_input, related_docs)
            /\ pc' = "complete"
            /\ UNCHANGED error
    /\ UNCHANGED <<mergeLen, df, vectorizerVars, counterVars, calls, new_list, i, chunkVars, e, df_new, storeVars,
                   user_input, related_docs, final_response, runs, table0>>

\* final_response = get_completion_from_messages(messages); return final_response
RagComplete ==
    /\ pc = "complete"
    /\ calls' = Append(calls, completion_call)
    /\ \/ /\ final_response' \in Responses
          /\ pc' = "returned"
          /\ UNCHANGED error
       \/ \* the completion call raises
          /\ error' = "CompletionError"
          /\ pc' = "raised"
          /\ UNCHANGED final_response
    /\ UNCHANGED <<mergeLen, df, vectorizerVars, counterVars, new_list, i, chunkVars, e, df_new, storeVars,
                   user_input, related_docs, messages, runs, table0>>

----------------------------------------------------------------------------
(* Properties of the chunking cell *)

\* the rows of new_list cut from document d, in the order they were appended
RowsOf(d) == SelectSeq(new_list, LAMBDA row : row[1] = df[d].title)

\* the chunking cell is running or has just finished; documents 1 .. i are done
Chunking == pc \in {"chunk", "slice"} \/ (pc = "embed" /\ e = 0)

IsSmall(d) == num_tokens_from_string(df[d].content) <= 512
WordsOf(d) == split(df[d].content)

\* C1: a document of at most 512 tokens contributes exactly one row, and that
\* row's content is the document's content, character for character.
C1_SmallDocumentOneRow ==
    Chunking =>
        \A d \in 1..i :
            IsSmall(d) =>
                /\ Len(RowsOf(d)) = 1
                /\ RowsOf(d)[1][2] = df[d].content

\* a small document with runs of whitespace has been chunked into one row
C1_Witness ==
    /\ pc = "embed" /\ e = 0
    /\ \E d \in 1..i :
          /\ IsSmall(d)
          /\ df[d].content # join(split(df[d].content))
          /\ Len(RowsOf(d)) = 1

\* C2: a document of more than 512 tokens contributes ceil(word_count / 384)
\* rows, word_count being the number of whitespace-separated words.
C2_LargeDocumentRowCount ==
    Chunking =>
        \A d \in 1..i :
            ~IsSmall(d) =>
                Len(RowsOf(d)) = CeilDiv(get_essay_length(df[d].content), 384)

\* a large document whose word count is no multiple of 384 has been chunked
C2_Witness ==
    /\ pc = "embed" /\ e = 0
    /\ \E d \in 1..i :
          /\ ~IsSmall(d)
          /\ get_essay_length(df[d].content) % 384 # 0
          /\ Len(RowsOf(d)) >= 2

\* C3: for a document of more than 512 tokens, the words of its rows,
\* concatenated in the order of the rows, are the words of the document.
C3_ChunksRebuildWords ==
    Chunking =>
        \A d \in 1..i :
            ~IsSmall(d) =>
                Cat([r \in 1..Len(RowsOf(d)) |-> split(RowsOf(d)[r][2])],
                    1, Len(RowsOf(d))) = WordsOf(d)

\* a large document of several rows, with words of several lengths, is done
C3_Witness ==
    /\ pc = "embed" /\ e = 0
    /\ \E d \in 1..i :
          /\ ~IsSmall(d)
          /\ Len(RowsOf(d)) >= 2
          /\ \E w \in 1..Len(WordsOf(d)) : Len(WordsOf(d)[w]) > 1

\* C4: in the split branch iteration j takes words[j*384 : min((j+1)*384,
\* total_words)]: the end index never exceeds total_words, every row but the
\* last holds 384 words, the last holds the remainder (1 to 384 words), and a
\* document of 2000 words gives 6 rows, the last of 80 words.
C4_SliceBounds ==
    /\ (pc = "slice" \/ (Chunking /\ i > 0 /\ ~IsSmall(i) /\ total_words > 0)) =>
          /\ j > 0 =>
                /\ last_slice[1] = (j - 1) * 384
                /\ last_slice[2] = Min(j * 384, total_words)
                /\ last_slice[2] <= total_words
          /\ j < chunks => (start = j * 384 /\ end = (j + 1) * 384)
    /\ Chunking =>
          \A d \in 1..i :
              ~IsSmall(d) =>
                  LET rows == RowsOf(d)
                      n == Len(rows)
                      total == Len(WordsOf(d))
                  IN /\ \A r \in 1..n :
                            Len(split(rows[r][2])) =
                                IF r < n THEN 384 ELSE total - 384 * (n - 1)
                     /\ n > 0 => (total - 384 * (n - 1)) \in 1..384
                     /\ total = 2000 => (n = 6 /\ Len(split(rows[6][2])) = 80)

\* the 2000-word document has been cut, its last slice clamped to 2000
C4_Witness ==
    /\ pc = "embed" /\ e = 0
    /\ i > 0 /\ ~IsSmall(i)
    /\ total_words = 2000
    /\ last_slice = <<1920, 2000>>
    /\ Len(RowsOf(i)) = 6

----------------------------------------------------------------------------
(* Properties of the ingestion into the embeddings table *)

IsPrefix(a, b) == Len(a) <= Len(b) /\ SubSeq(b, 1, Len(a)) = a

\* a stored row holds the fields of a chunk row [title, content, url, tokens, embedding]
StoresChunk(stored, row) ==
    /\ stored.title = row[1]
    /\ stored.content = row[2]
    /\ stored.url = row[3]
    /\ stored.tokens = row[4]
    /\ stored.embedding = row[5]

SameData(r1, r2) ==
    /\ r1.title = r2.title /\ r1.url = r2.url /\ r1.content = r2.content
    /\ r1.tokens = r2.tokens /\ r1.embedding = r2.embedding

\* C5: a run of the pipeline that starts on an empty table and reaches the
\* end of the insert cell leaves as many rows as the documents have chunks
\* together; two documents of one chunk each leave 2 rows.
C5_RowCountIsChunkCount ==
    (pc = "ready" /\ table0 = <<>>) =>
        /\ num_records = Sum([d \in 1..Len(df) |-> Len(RowsOf(d))], 1, Len(df))
        /\ (Len(df) = 2 /\ Len(RowsOf(1)) = 1 /\ Len(RowsOf(2)) = 1) => num_records = 2

\* two documents of one chunk each have been ingested into the empty table
C5_Witness ==
    /\ pc = "ready" /\ table0 = <<>>
    /\ Len(df) = 2 /\ Len(RowsOf(1)) = 1 /\ Len(RowsOf(2)) = 1
    /\ num_records = 2

\* C6: no step updates or deletes a committed row; a run that completes
\* appends one stored row per chunk row, in order, to what was there; and
\* when the earlier runs completed too, run k leaves k times the rows of one
\* run, the rows of run k being copies of the rows of run 1.
C6_AppendOnlyNotIdempotent ==
    /\ [][IsPrefix(table, table')]_vars
    /\ [](pc = "ready" =>
            LET n == Len(new_list)
                before == Len(table0)
            IN /\ IsPrefix(table0, table)
               /\ Len(table) = before + n
               /\ \A r \in 1..n : StoresChunk(table[before + r], new_list[r])
               /\ before = (runs - 1) * n =>
                     /\ Len(table) = runs * n
                     /\ \A r \in 1..n : SameData(table[r], table[before + r]))

\* the same documents have been ingested twice and every row is there twice
C6_Witness ==
    /\ pc = "ready" /\ runs = 2
    /\ Len(new_list) > 1
    /\ Len(table) = 2 * Len(new_list)
    /\ table[1].id # table[Len(new_list) + 1].id
    /\ SameData(table[1], table[Len(new_list) + 1])

\* C7: whatever happens to the batch insert, the table holds all the rows of
\* the batch or none of them, also after later cells commit on the connection.
C7_BatchAllOrNothing ==
    LET added == Len(table) - Len(table0)
    IN added = 0 \/ added = Len(data_list)

----------------------------------------------------------------------------
(* Properties of retrieval and answer synthesis *)

\* the fetched contents docs[m..] are those of distinct rows outside used, in
\* non-decreasing distance from q starting at distance last, and no row left
\* out is nearer than the last row fetched
RECURSIVE FetchedFrom(_, _, _, _, _, _)
FetchedFrom(rows, q, docs, m, used, last) ==
    IF m > Len(docs)
    THEN \A o \in (1..Len(rows)) \ used :
             cosine_distance(rows[o].embedding, q) >= last
    ELSE \E p \in (1..Len(rows)) \ used :
             /\ rows[p].content = docs[m][1]
             /\ cosine_distance(rows[p].embedding, q) >= last
             /\ FetchedFrom(rows, q, docs, m + 1, used \cup {p},
                            cosine_distance(rows[p].embedding, q))

PromptAssembled ==
    /\ pc \in {"complete", "returned", "raised"}
    /\ error # "EmbeddingError"

\* C9: when retrieval returns fewer than 3 rows the call still proceeds: it
\* builds the prompt from what was retrieved and calls the completion service
\* instead of failing.
C9_ProceedsWithMissingContext ==
    (PromptAssembled /\ Len(related_docs) < 3) =>
        /\ error # "IndexError"
        /\ Len(messages) = 3

\* the words of the contents of the fetched rows, in retrieval order
FetchedWords(docs) == Cat([m \in 1..Len(docs) |-> split(docs[m][1])], 1, Len(docs))

\* three messages system, user, assistant; the user message is the question
\* between two delimiters; the assistant message carries the fetched contents
\* in order, each once
PromptShape ==
    /\ Len(messages) = 3
    /\ messages[1].role = "system"
    /\ messages[2].role = "user"
    /\ messages[3].role = "assistant"
    /\ messages[2].content = delimiter \o user_input \o delimiter
    /\ split(messages[3].content) = <<context_header>> \o FetchedWords(related_docs)

\* C10: for every question whose retrieval has run, the call submits the
\* three messages system, user, assistant, with the question delimited and
\* the contents of the retrieved rows in retrieval order, each once.
C10_PromptOfThreeMessages == PromptAssembled => PromptShape

\* what the code does achieve: a prompt that is submitted has that shape
SubmittedPromptHasShape == (PromptAssembled /\ messages # <<>>) => PromptShape

----------------------------------------------------------------------------
(* Properties of the embedding loop *)

\* the embedding loop has handled every row of new_list
LoopDone == (pc = "embed" /\ e = Len(new_list)) \/ pc = "insert"

\* C11: the embedding loop calls the embedding service once per chunk row, in
\* row order and one call at a time: while the loop runs, the calls made are
\* exactly those for the rows before the loop index and only those rows carry
\* a vector; when the loop has finished, the r-th call submitted the content
\* of row r and row r carries one vector, the one answering that call
C11_SequentialOneToOne ==
    /\ pc = "embed" =>
          /\ Len(calls) = e
          /\ \A r \in 1..Len(new_list) :
                Len(new_list[r]) = IF r <= e THEN 5 ELSE 4
    /\ LoopDone =>
          /\ Len(calls) = Len(new_list)
          /\ \A r \in 1..Len(new_list) :
                /\ Len(new_list[r]) = 5
                /\ calls[r].service = "embeddings"
                /\ calls[r].input = replace_newlines(new_list[r][2])
                /\ new_list[r][5] = embed_model(calls[r].input)

\* the loop has finished over several rows whose vectors differ
C11_Witness ==
    /\ pc = "insert"
    /\ Len(calls) >= 2
    /\ \E r1, r2 \in 1..Len(new_list) : new_list[r1][5] # new_list[r2][5]

----------------------------------------------------------------------------
(* Failures of the external services during answer synthesis *)

\* a call of process_input_with_retrieval has been made
InRag == pc \in {"retrieve", "prompt", "complete", "returned", "raised"}

\* C12: when the embedding request for the user's question fails,
\* process_input_with_retrieval raises after that single request, without
\* having queried the store or called the completion service; when the
\* completion request fails, it raises after that single completion request
\* and returns no text
C12_FailurePropagatesOnce ==
    /\ (InRag /\ error = "EmbeddingError") =>
          /\ pc = "raised"
          /\ calls = <<embedding_call(user_input)>>
          /\ related_docs = <<>>
          /\ messages = <<>>
          /\ final_response = <<>>
    /\ (InRag /\ error = "CompletionError") =>
          /\ pc = "raised"
          /\ final_response = <<>>
          /\ Len(calls) = 3
          /\ calls[1] = embedding_call(user_input)
          /\ calls[2].service = "store"
          /\ calls[3] = completion_call

\* the embedding request of a question fails although the store holds rows
C12_Witness ==
    /\ pc = "raised"
    /\ error = "EmbeddingError"
    /\ Len(table) >= TopK

----------------------------------------------------------------------------
(* The token counter, called repeatedly on one argument *)

\* the strings of at most n characters over two whitespace characters and two
\* letters
RECURSIVE StringsUpTo(_)
StringsUpTo(n) ==
    IF n = 0 THEN { <<>> }
    ELSE LET shorter == StringsUpTo(n - 1)
         IN shorter \cup { Append(s, c) : s \in shorter, c \in {SPACE, NEWLINE, 1, 2} }

Arguments == StringsUpTo(MaxStringLen) \cup { None }

CounterInit ==
    /\ mergeLen \in 1..MaxMerge
    /\ string \in Arguments
    /\ counts = <<>> /\ encodes = 0
    /\ df = <<>>
    /\ new_list = <<>>
    /\ i = 0
    /\ words = <<>> /\ total_words = 0 /\ chunks = 0
    /\ j = 0 /\ start = 0 /\ end = 0 /\ last_slice = <<0, 0>>
    /\ e = 0
    /\ df_new = <<>>
    /\ data_list = <<>> /\ sent = 0
    /\ txn = "idle" /\ pending = <<>> /\ table = <<>> /\ seq = 0
    /\ user_input = <<>> /\ related_docs = <<>> /\ messages = <<>>
    /\ final_response = <<>>
    /\ error = "none"
    /\ runs = 1
    /\ table0 = <<>>
    /\ calls = <<>>
    /\ products = <<>> /\ products_table = <<>> /\ products_id = 0
    /\ inserted = <<>> /\ fetched = <<>> /\ context = <<>>
    /\ pc = "count"

\* num_tokens_from_string(string) is called once more
CountTokens ==
    /\ pc = "count"
    /\ Len(counts) < MaxCalls
    /\ counts' = Append(counts, num_tokens_from_string(string))
    /\ encodes' = IF not_string(string) THEN encodes ELSE encodes + 1
    /\ UNCHANGED <<mergeLen, df, vectorizerVars, calls, string, new_list, i, chunkVars, e, df_new,
                   storeVars, ragVars, error, runs, table0, pc>>

CounterNext == CountTokens

CounterSpec == CounterInit /\ [][CounterNext]_vars

----------------------------------------------------------------------------
(* Composition and order of the chunk rows *)

\* the rows document d is to contribute: itself when it is small, otherwise
\* one row per run of ideal_size words, in the order of the runs; each with
\* the document's title and url and the token count of the row's own content
ExpectedRows(d) ==
    LET doc == df[d]
        row(content) == <<doc.title, content, doc.url, num_tokens_from_string(content)>>
        ws == WordsOf(d)
    IN IF IsSmall(d)
       THEN << row(doc.content) >>
       ELSE [k \in 1..CeilDiv(Len(ws), ideal_size) |->
                row(join(SubSeq(ws, (k - 1) * ideal_size + 1,
                                Min(k * ideal_size, Len(ws)))))]

\* C14: the rows appended so far are the first rows of the sequence made of
\* the rows of document 1, then those of document 2, and so on, each row
\* carrying the title and url of its document and the token count of its own
\* content; when the loop ends new_list is that whole sequence
C14_RowCompositionAndOrder ==
    Chunking =>
        LET all == Cat([d \in 1..Len(df) |-> ExpectedRows(d)], 1, Len(df))
            done == Cat([d \in 1..i |-> ExpectedRows(d)], 1, i)
        IN /\ IsPrefix(done, new_list)
           /\ IsPrefix(new_list, all)
           /\ pc = "embed" => new_list = all

\* chunking has ended on several documents, one of them cut into several rows
\* whose token counts differ
C14_Witness ==
    /\ pc = "embed" /\ e = 0
    /\ Len(df) >= 2
    /\ \E r \in 1..(Len(new_list) - 1) :
          /\ new_list[r][1] = new_list[r + 1][1]
          /\ new_list[r][4] # new_list[r + 1][4]
          /\ new_list[r][4] # ideal_token_size

----------------------------------------------------------------------------
(* The guard on chunks of zero tokens *)

\* C15: an iteration of the inner loop that appends no row had taken a slice
\* holding no word; hence every finished document with at least one word has
\* at least one row, and no row of a split document has an empty content or a
\* content without a word
C15_GuardDropsNoWord ==
    /\ [][(pc = "slice" /\ new_list' = new_list) =>
              SubSeq(words, last_slice'[1] + 1, last_slice'[2]) = <<>>]_vars
    /\ [](Chunking =>
            \A d \in 1..i :
               /\ WordsOf(d) # <<>> => RowsOf(d) # <<>>
               /\ ~IsSmall(d) =>
                     \A r \in 1..Len(RowsOf(d)) :
                        /\ RowsOf(d)[r][2] # <<>>
                        /\ split(RowsOf(d)[r][2]) # <<>>)

\* a split document's chunk of a single token, the least the guard lets
\* through, has been kept
C15_Witness ==
    /\ Chunking
    /\ \E d \in 1..i :
          /\ ~IsSmall(d)
          /\ \E r \in 1..Len(RowsOf(d)) : RowsOf(d)[r][4] = 1

----------------------------------------------------------------------------
(* Order of the embedding loop and the batch insert *)

\* C16: rows of the current run are in the table or in the open transaction
\* only once the embedding loop has given every chunk row its vector; when an
\* embedding call fails the notebook stops with the table as it was when the
\* run started, with nothing sent to the store and no transaction open
C16_NoWriteBeforeEmbeddings ==
    /\ (table # table0 \/ pending # <<>> \/ sent > 0) =>
          /\ e = Len(new_list)
          /\ \A r \in 1..Len(new_list) : Len(new_list[r]) = 5
    /\ (pc = "stopped" /\ error = "EmbeddingError") =>
          /\ table = table0
          /\ pending = <<>>
          /\ txn = "idle"
          /\ sent = 0

\* the embedding call has failed on a later chunk, after other chunks had
\* been embedded
C16_Witness ==
    /\ pc = "stopped" /\ error = "EmbeddingError"
    /\ e >= 1
    /\ e < Len(new_list)

----------------------------------------------------------------------------
(* From chunk row to stored row *)

\* the rows the current run has inserted, committed or not
RunRows == SubSeq(visible_rows, Len(table0) + 1, Len(visible_rows))

\* C17: from the first page sent to the end of the insert cell and of the
\* cells that commit after it, the r-th row the run has inserted holds the title, content, url,
\* token count and vector of the r-th chunk row, each in the column of its
\* name: its title and url are those of one document, its token count is
\* that of its content and its vector is the embedding of its content; a run
\* that completes has inserted one row per chunk row
C17_FieldMapping ==
    pc \in {"exec", "commit", "ready", "failed", "stopped"} =>
        LET rows == RunRows
        IN /\ Len(rows) <= Len(new_list)
           /\ pc = "ready" => Len(rows) = Len(new_list)
           /\ \A r \in 1..Len(rows) :
                 LET stored == rows[r]
                     row == new_list[r]
                 IN /\ stored.title = row[1]
                    /\ stored.content = row[2]
                    /\ stored.url = row[3]
                    /\ stored.tokens = row[4]
                    /\ stored.embedding = row[5]
                    /\ \E d \in 1..Len(df) :
                          stored.title = df[d].title /\ stored.url = df[d].url
                    /\ stored.tokens = num_tokens_from_string(stored.content)
                    /\ stored.embedding = get_embeddings(stored.content)

\* a run has stored the rows of a split document, whose contents differ from
\* the document's url and from each other
C17_Witness ==
    /\ pc = "ready"
    /\ \E r \in 1..(Len(RunRows) - 1) :
          /\ RunRows[r].title = RunRows[r + 1].title
          /\ RunRows[r].content # RunRows[r + 1].content
          /\ RunRows[r].content # RunRows[r].url

----------------------------------------------------------------------------
(* The pgai vectorizer notebook: loading the table products in two subsets   *)
(* with COPY, and building the context from the chunks nearest to the query *)

\* the state of the "Hello pgvector" notebook, which this notebook leaves alone
helloVars == <<mergeLen, df, new_list, i, chunkVars, e, df_new, storeVars,
               ragVars, runs, table0, calls>>

\* row k of product_catalog.csv
Product(k) == [name |-> <<9000 + k>>, description |-> <<1 + (k % 4), SPACE, 5>>]

\* products = [{"name": ..., "description": ...} for _, row in data.iterrows()]
Catalog(n) == [k \in 1..n |-> Product(k)]

\* a catalog in which product k has the given description
WithDescription(catalog, k, description) ==
    [catalog EXCEPT ![k].description = description]

Catalogs ==
    { Catalog(0), Catalog(3), Catalog(SubsetSize), Catalog(SubsetSize + 2),
      \* a description of two lines
      WithDescription(Catalog(SubsetSize + 2), SubsetSize + 1, <<1, NEWLINE, 2>>),
      \* a description with a tab
      WithDescription(Catalog(SubsetSize + 2), 2, <<1, TAB, 2>>),
      \* a description of two lines with a tab in the second
      WithDescription(Catalog(3), 2, <<1, NEWLINE, 2, TAB, 3>>),
      WithDescription(Catalog(SubsetSize + 2), SubsetSize + 1,
                      <<1, NEWLINE, 2, TAB, 3>>) }

\* subset_1 = products[:250]
subset_1 == PySlice(products, 0, SubsetSize)

\* subset_2 = products[250:]
subset_2 == PySlice(products, SubsetSize, Len(products))

\* f"{product['name']}\t{product['description']}\n"
copy_line(product) == product.name \o <<TAB>> \o product.description \o <<NEWLINE>>

\* the StringIO after the loop over the subset
copy_buffer(subset) == Cat([k \in 1..Len(subset) |-> copy_line(subset[k])], 1, Len(subset))

\* the pieces of s between the occurrences of sep, a piece after the last
\* occurrence included
pieces(s, sep) ==
    LET idx == [k \in 1..Len(s) |-> k]
        at == SelectSeq(idx, LAMBDA k : s[k] = sep)
    IN [m \in 1..(Len(at) + 1) |->
           SubSeq(s, IF m = 1 THEN 1 ELSE at[m - 1] + 1,
                     IF m = Len(at) + 1 THEN Len(s) ELSE at[m] - 1)]

\* COPY ... FROM STDIN in text format: one input row per line, the columns of
\* a line separated by sep; what follows the last newline is a row only when
\* it is not empty
copy_lines(buffer, sep) ==
    LET ls == pieces(buffer, NEWLINE)
        n == IF ls[Len(ls)] = <<>> THEN Len(ls) - 1 ELSE Len(ls)
    IN [m \in 1..n |-> pieces(ls[m], sep)]

\* a line COPY accepts for columns = ('product', 'description')
copy_line_ok(fields) == Len(fields) = 2

\* the number of lines COPY turns into rows before it stops: all of them, or
\* those before the first line with missing or extra columns
copy_accepted(lines) ==
    LET bad == { m \in 1..Len(lines) : ~copy_line_ok(lines[m]) }
    IN IF bad = {} THEN Len(lines)
       ELSE (CHOOSE m \in bad : \A o \in bad : m <= o) - 1

\* the rows COPY adds to products: the identity column takes the next values
copy_rows(lines, last_id) ==
    [m \in 1..Len(lines) |->
        [id |-> last_id + m, product |-> lines[m][1], description |-> lines[m][2]]]

VectorizerInit ==
    /\ products \in Catalogs
    /\ products_table = <<>> /\ products_id = 0
    /\ inserted = <<>> /\ fetched = <<>> /\ context = <<>>
    /\ string = <<>> /\ counts = <<>> /\ encodes = 0
    /\ mergeLen = 1
    /\ df = <<>>
    /\ new_list = <<>>
    /\ i = 0
    /\ words = <<>> /\ total_words = 0 /\ chunks = 0
    /\ j = 0 /\ start = 0 /\ end = 0 /\ last_slice = <<0, 0>>
    /\ e = 0
    /\ df_new = <<>>
    /\ data_list = <<>> /\ sent = 0
    /\ txn = "idle" /\ pending = <<>> /\ table = <<>> /\ seq = 0
    /\ user_input = <<>> /\ related_docs = <<>> /\ messages = <<>>
    /\ final_response = <<>>
    /\ error = "none"
    /\ runs = 1
    /\ table0 = <<>>
    /\ calls = <<>>
    /\ pc = "insert_1"

\* insert_subset_data(subset): "with connect_db() as conn" commits when the
\* block ends normally and rolls back when it raises
insert_subset_data(subset, next_pc) ==
    LET lines == copy_lines(copy_buffer(subset), TAB)
        accepted == copy_accepted(lines)
    IN \/ \* connecting fails, or the COPY or the commit fails in the server
          /\ error' = "OperationalError"
          /\ pc' = "raised"
          /\ inserted' = Append(inserted, [added |-> 0, raised |-> TRUE])
          /\ UNCHANGED <<products_table, products_id>>
       \/ /\ accepted < Len(lines)
          \* COPY stops at a malformed line; the rows before it are rolled
          \* back, the identity values they took are not given back
          /\ error' = "DataError"
          /\ pc' = "raised"
          /\ products_id' = products_id + accepted
          /\ inserted' = Append(inserted, [added |-> 0, raised |-> TRUE])
          /\ UNCHANGED products_table
       \/ /\ accepted = Len(lines)
          /\ products_table' = products_table \o copy_rows(lines, products_id)
          /\ products_id' = products_id + Len(lines)
          /\ inserted' = Append(inserted, [added |-> Len(lines), raised |-> FALSE])
          /\ pc' = next_pc
          /\ UNCHANGED error

\* insert_subset_data(subset_1)
InsertSubset1 ==
    /\ pc = "insert_1"
    /\ insert_subset_data(subset_1, "retrieve")
    /\ UNCHANGED <<helloVars, counterVars, products, fetched, context>>

\* "\n\n".join(items) that ends every item with the separator
join_blank_line_after_each(items) ==
    Cat([k \in 1..Len(items) |-> items[k] \o <<NEWLINE, NEWLINE>>], 1, Len(items))

\* "\n\n".join(items)
join_blank_line(items) ==
    Cat([k \in 1..Len(items) |->
            IF k = 1 THEN items[k] ELSE <<NEWLINE, NEWLINE>> \o items[k]],
        1, Len(items))

\* "Chunk: "
chunk_label == <<7003, SPACE>>

\* a chunk of the view products_embedding
ChunkTexts == { <<1, SPACE, 5>>, <<2>>, <<3, NEWLINE, NEWLINE, 4>> }

\* the chunks the view holds when it is queried, nearest to the query first;
\* the vectorizer fills the view on its own schedule
RECURSIVE ViewsUpTo(_)
ViewsUpTo(n) ==
    IF n = 0 THEN { <<>> }
    ELSE LET shorter == ViewsUpTo(n - 1)
         IN shorter \cup { Append(v, c) : v \in shorter, c \in ChunkTexts }

\* SELECT chunk FROM products_embedding ORDER BY embedding <=> ... ASC LIMIT 3
select_chunks(view) == [k \in 1..Min(Len(view), ChunkLimit) |-> <<view[k]>>]

\* context = "\n\n".join([f"Chunk: {row[0]}" for row in rows])
build_context(rs) == join_blank_line([k \in 1..Len(rs) |-> chunk_label \o rs[k][1]])

\* the "Retrieve context" cell
RetrieveContext ==
    /\ pc = "retrieve"
    /\ \/ \E view \in ViewsUpTo(MaxView) :
             /\ fetched' = select_chunks(view)
             /\ context' = build_context(fetched')
             /\ pc' = "insert_2"
             /\ UNCHANGED error
       \/ \* the query raises
          /\ error' = "OperationalError"
          /\ pc' = "raised"
          /\ UNCHANGED <<fetched, context>>
    /\ UNCHANGED <<helloVars, counterVars, products, products_table, products_id,
                   inserted>>

\* insert_subset_data(subset_2)
InsertSubset2 ==
    /\ pc = "insert_2"
    /\ insert_subset_data(subset_2, "done")
    /\ UNCHANGED <<helloVars, counterVars, products, fetched, context>>

VectorizerNext ==
    \/ InsertSubset1
    \/ RetrieveContext
    \/ InsertSubset2

VectorizerSpec == VectorizerInit /\ [][VectorizerNext]_vars

----------------------------------------------------------------------------
(* Properties of the vectorizer notebook *)

\* the subset the c-th call of insert_subset_data was given
SubsetOfCall(c) == IF c = 1 THEN subset_1 ELSE subset_2

\* the table products holds the products of the catalog, each once
HoldsCatalogOnce ==
    /\ Len(products_table) = Len(products)
    /\ \A k \in 1..Len(products) :
          /\ products_table[k].product = products[k].name
          /\ products_table[k].description = products[k].description

\* every call of insert_subset_data has added one row per product of its
\* subset when it returned and no row when it raised, and after both calls
\* have returned the table holds every product of the catalog once
SubsetsLoaded ==
    /\ \A c \in 1..Len(inserted) :
          inserted[c].added = IF inserted[c].raised THEN 0 ELSE Len(SubsetOfCall(c))
    /\ pc = "done" => HoldsCatalogOnce

\* C18: each call insert_subset_data(subset) adds len(subset) rows to
\* products, one per product, or none when it raises; after both calls have
\* succeeded products holds every product of the catalog exactly once
C18_SubsetLoad == SubsetsLoaded

\* no name and no description of the catalog holds a tab or a newline
PlainCatalog ==
    \A k \in 1..Len(products) :
        \A t \in {products[k].name, products[k].description} :
            \A c \in 1..Len(t) : t[c] # TAB /\ t[c] # NEWLINE

\* the load is as C18 says when the catalog has no tab and no newline
LoadOfPlainCatalog == PlainCatalog => SubsetsLoaded

\* the "Retrieve context" cell has run to its end
Retrieved == pc = "insert_2" \/ Len(inserted) = 2

\* C19: when the retrieval has fetched n rows, n is at most 3 and the context
\* is the empty string for n = 0 and otherwise "Chunk: " followed by the
\* first chunk, then for each further chunk in the order fetched a blank line,
\* "Chunk: " and the chunk; building it raises no error
C19_ContextAssembly ==
    Retrieved =>
        LET n == Len(fetched)
            item(k) == chunk_label \o fetched[k][1]
            blank == <<NEWLINE, NEWLINE>>
        IN /\ n <= ChunkLimit
           /\ pc = "insert_2" => error = "none"
           /\ context = CASE n = 0 -> <<>>
                          [] n = 1 -> item(1)
                          [] n = 2 -> item(1) \o blank \o item(2)
                          [] OTHER -> item(1) \o blank \o item(2) \o blank \o item(3)

\* three chunks, not all the same, have been fetched and made into a context
C19_Witness ==
    /\ pc = "insert_2"
    /\ Len(fetched) = ChunkLimit
    /\ fetched[1] # fetched[2]
    /\ context # <<>>

Next ==
    \/ StartChunking
    \/ ChunkDoc
    \/ ChunkSlice
    \/ EmbedRow
    \/ MakeFrame
    \/ PrepareData
    \/ ExecPage
    \/ Commit
    \/ LaterCommit
    \/ RagEmbed
    \/ RagRetrieve
    \/ RagPrompt
    \/ RagComplete
    \/ Restart

Spec == Init /\ [][Next]_vars

=============================================================================
